---- MODULE Spec2Model ----
(***************************************************************************)
(* Model of the three exam scripts (may2022.py, may2023.py, may2024.py):   *)
(* the module-level table df, the selector / aggregator / presenter        *)
(* functions that close over it, and main_menu's request loop.             *)
(*                                                                         *)
(* Numbers: the scripts compute on float64.  The model keeps every number  *)
(* as an exact fraction [n, d] in lowest terms (d = 0: nan or inf), which  *)
(* is what float64 arithmetic yields, up to rounding, on the small         *)
(* integers the tables here hold.  np.std is kept as its square, the      *)
(* variance.                                                               *)
(***************************************************************************)
EXTENDS Integers, Sequences, FiniteSets, TLC

\* script, df, pc and out are the program; asked is a history variable: the
\* answers the caller got the first time it asked the queries of a session.
VARIABLES script, df, pc, out, asked

vars == <<script, df, pc, out, asked>>

(***************************************************************************)
(* Bounds of the model.                                                    *)
(***************************************************************************)
\* Largest number of data rows of a loaded table.
MaxRows == 2

\* Python's None where the code passes a string or None.
NoneVal == "<None>"

\* may2023: the 'Menu Item' and 'Service' values a file may hold, the names
\* of its date columns (columns from index 2 on) and the cell values.
Items23 == {"Ribs", "Wings"}
Services23 == {"Lunch", "Dinner"}
DateLabels == <<"01-Mar", "02-Mar">>
Vals23 == {-1, 0, 1}

\* What the user may type at a prompt, or a caller may pass: values of the
\* table, values of no table, and the empty line.
ItemInputs == Items23 \cup {"Salad"}
ServiceInputs == Services23 \cup {"Brunch"}
MetricInputs == {"total", "average", "max"}
\* Answers to "Search by 'total' or 'average' sales?".
MetricTexts == {"total", "average", ""}

(***************************************************************************)
(* Python values.                                                          *)
(***************************************************************************)
None == [tag |-> "None"]
Raise(e) == [tag |-> "exc", exc |-> e]
IsExc(v) == "exc" \in DOMAIN v

(***************************************************************************)
(* Exact fractions for float64 values.                                     *)
(***************************************************************************)
Abs(x) == IF x < 0 THEN 0 - x ELSE x

RECURSIVE GCD(_, _)
GCD(a, b) == IF b = 0 THEN a ELSE GCD(b, a % b)

\* d = 0 holds the non-finite values: nan is 0/0, inf is 1/0, -inf is -1/0.
NaN == [n |-> 0, d |-> 0]
IsNaN(a) == a.n = 0 /\ a.d = 0
Sign(x) == IF x < 0 THEN 0 - 1 ELSE IF x > 0 THEN 1 ELSE 0

Rat(n, d) ==
    IF d = 0 THEN [n |-> Sign(n), d |-> 0]
    ELSE LET g == GCD(Abs(n), Abs(d))
         IN  [n |-> Sign(d) * (n \div g), d |-> Sign(d) * (d \div g)]

ToRat(i) == [n |-> i, d |-> 1]
RatAdd(a, b) == IF IsNaN(a) \/ IsNaN(b) THEN NaN ELSE Rat(a.n * b.d + b.n * a.d, a.d * b.d)
RatSub(a, b) == IF IsNaN(a) \/ IsNaN(b) THEN NaN ELSE Rat(a.n * b.d - b.n * a.d, a.d * b.d)
RatMul(a, b) == IF IsNaN(a) \/ IsNaN(b) THEN NaN ELSE Rat(a.n * b.n, a.d * b.d)
\* float64 division: x / 0.0 is inf or nan with a warning, never an exception.
RatDiv(a, b) == IF IsNaN(a) \/ IsNaN(b) THEN NaN ELSE Rat(a.n * b.d, a.d * b.n)
RatDivInt(a, k) == RatDiv(a, ToRat(k))
\* Comparisons with nan are False, as in IEEE 754.
RatLT(a, b) == ~IsNaN(a) /\ ~IsNaN(b) /\ a.n * b.d < b.n * a.d
RatLE(a, b) == ~IsNaN(a) /\ ~IsNaN(b) /\ a.n * b.d <= b.n * a.d
RatGT(a, b) == RatLT(b, a)
RatGE(a, b) == RatLE(b, a)

(***************************************************************************)
(* numpy reductions over a one-dimensional array (a sequence of integers). *)
(***************************************************************************)
RECURSIVE SumSeq(_)
SumSeq(S) == IF S = <<>> THEN 0 ELSE S[1] + SumSeq(Tail(S))

RECURSIVE RatSumSeq(_)
RatSumSeq(S) == IF S = <<>> THEN ToRat(0) ELSE RatAdd(S[1], RatSumSeq(Tail(S)))

\* np.sum: 0.0 on an empty array.
np_sum(S) == ToRat(SumSeq(S))

\* Mutant of np_mean: the mean taken with floor division (sum // len).
np_mean_floordiv(S) == IF S = <<>> THEN NaN ELSE ToRat(SumSeq(S) \div Len(S))

\* np.mean: add.reduce(S) / len(S); nan (with a warning) on an empty array.
np_mean(S) == Rat(SumSeq(S), Len(S))

\* np.max / np.min: ValueError on an empty array.
np_max(S) ==
    IF S = <<>> THEN Raise("ValueError")
    ELSE ToRat(CHOOSE m \in {S[i] : i \in DOMAIN S} : \A i \in DOMAIN S : S[i] <= m)

np_min(S) ==
    IF S = <<>> THEN Raise("ValueError")
    ELSE ToRat(CHOOSE m \in {S[i] : i \in DOMAIN S} : \A i \in DOMAIN S : m <= S[i])

\* Mutant of np_std_sq: the sample variance, divisor n - 1 (ddof=1).
np_std_sq_sample(S) ==
    LET m == np_mean(S)
        dev2 == [i \in DOMAIN S |->
                    LET dv == RatSub(ToRat(S[i]), m) IN RatMul(dv, dv)]
    IN  RatDivInt(RatSumSeq(dev2), Len(S) - 1)

\* np.std squared: mean(abs(x - x.mean()) ** 2), the population variance.
np_std_sq(S) ==
    LET m == np_mean(S)
        dev2 == [i \in DOMAIN S |->
                    LET dv == RatSub(ToRat(S[i]), m) IN RatMul(dv, dv)]
    IN  RatDivInt(RatSumSeq(dev2), Len(S))

\* The statistics dictionary built by calculate_menu_stats and
\* calculate_income_stats from a non-empty array.
StatsDict(S) ==
    [tag |-> "stats",
     total |-> np_sum(S),
     average |-> np_mean(S),
     max |-> np_max(S),
     min |-> np_min(S),
     std_dev_sq |-> np_std_sq(S),
     count |-> Len(S)]

(***************************************************************************)
(* pandas primitives on a table (a sequence of row records).               *)
(***************************************************************************)
\* df[col].values
Column(t, col) == [i \in DOMAIN t |-> t[i][col]]

\* x in df[col].values
InColumn(t, col, x) == \E i \in DOMAIN t : t[i][col] = x

\* Series.unique(): the distinct values in order of first appearance.
RECURSIVE UniqueFrom(_, _)
UniqueFrom(S, seen) ==
    IF S = <<>> THEN <<>>
    ELSE IF S[1] \in seen THEN UniqueFrom(Tail(S), seen)
         ELSE <<S[1]>> \o UniqueFrom(Tail(S), seen \cup {S[1]})

Unique(S) == UniqueFrom(S, {})

\* Mutant of FilterEq: the comparison ignores the case of the first letter.
FilterEq_nocase(t, col, x) ==
    LET Fold(v) == IF v = "North" THEN "north" ELSE IF v = "Ribs" THEN "ribs" ELSE v
    IN  SelectSeq(t, LAMBDA r : Fold(r[col]) = Fold(x))

\* frame[frame[col] == x]: the rows whose col equals x, in frame order.
FilterEq(t, col, x) == SelectSeq(t, LAMBDA r : r[col] = x)

Frame(rows) == [tag |-> "frame", rows |-> rows]

(***************************************************************************)
(* may2023.py                                                              *)
(***************************************************************************)
Rows23 == [MenuItem : Items23, Service : Services23,
           cells : [1..Len(DateLabels) -> Vals23]]

get_available_menu_items == Unique(Column(df, "MenuItem"))

get_available_services == Unique(Column(df, "Service"))

\* Mutant of get_menu_item_data: the service is filtered on without being
\* validated against the Service column first.
get_menu_item_data_unchecked(menu_item, service) ==
    IF ~InColumn(df, "MenuItem", menu_item) THEN None
    ELSE LET filtered_data == FilterEq(df, "MenuItem", menu_item) IN
         IF service # NoneVal
         THEN Frame(FilterEq(filtered_data, "Service", service))
         ELSE Frame(filtered_data)

get_menu_item_data(menu_item, service) ==
    IF ~InColumn(df, "MenuItem", menu_item) THEN None
    ELSE LET filtered_data == FilterEq(df, "MenuItem", menu_item) IN
         IF service # NoneVal
         THEN IF ~InColumn(df, "Service", service) THEN None
              ELSE Frame(FilterEq(filtered_data, "Service", service))
         ELSE Frame(filtered_data)

\* Mutant of get_sales_time_series: the values are read from the last
\* matching row (data.iloc[-1, 2:]).
get_sales_time_series_last(menu_item, service) ==
    LET data == get_menu_item_data(menu_item, service) IN
    IF data.tag = "None" \/ data.rows = <<>> THEN None
    ELSE [tag |-> "series", labels |-> DateLabels,
          values |-> data.rows[Len(data.rows)].cells]

\* Returns the pair (date_labels, sales_values), or (None, None).
get_sales_time_series(menu_item, service) ==
    LET data == get_menu_item_data(menu_item, service) IN
    IF data.tag = "None" \/ data.rows = <<>> THEN None
    ELSE [tag |-> "series", labels |-> DateLabels, values |-> data.rows[1].cells]

calculate_menu_stats(menu_item, service) ==
    LET ts == get_sales_time_series(menu_item, service) IN
    IF ts.tag = "None" THEN None ELSE StatsDict(ts.values)

\* The pair (best_item, best_value) the scans start from.
BestStart == [tag |-> "best", item |-> NoneVal, value |-> ToRat(0 - 1)]

RECURSIVE HighestItemFrom(_, _, _, _)
HighestItemFrom(items, service, metric, best) ==
    IF items = <<>> THEN best
    ELSE LET stats == calculate_menu_stats(items[1], service) IN
         IF stats.tag = "None"
         THEN HighestItemFrom(Tail(items), service, metric, best)
         ELSE LET value == stats[metric] IN
              IF RatGT(value, best.value)
              THEN HighestItemFrom(Tail(items), service, metric,
                       [tag |-> "best", item |-> items[1], value |-> value])
              ELSE HighestItemFrom(Tail(items), service, metric, best)

find_highest_performing_item(service, metric) ==
    HighestItemFrom(get_available_menu_items, service, metric, BestStart)

compare_lunch_dinner(menu_item) ==
    [lunch |-> calculate_menu_stats(menu_item, "Lunch"),
     dinner |-> calculate_menu_stats(menu_item, "Dinner")]

\* sales[start_idx:end_idx+1] for non-negative indices.
Slice(S, start_idx, end_idx) ==
    LET hi == IF end_idx + 1 < Len(S) THEN end_idx + 1 ELSE Len(S) IN
    IF start_idx >= hi THEN <<>> ELSE SubSeq(S, start_idx + 1, hi)

PeriodValue(period_sales, metric) ==
    IF metric = "total" THEN np_sum(period_sales)
    ELSE IF metric = "average" THEN np_mean(period_sales)
    ELSE np_max(period_sales)

RECURSIVE BestInPeriodFrom(_, _, _, _, _, _)
BestInPeriodFrom(items, start_idx, end_idx, service, metric, best) ==
    IF items = <<>> THEN best
    ELSE LET ts == get_sales_time_series(items[1], service) IN
         IF ts.tag = "None"
         THEN BestInPeriodFrom(Tail(items), start_idx, end_idx, service, metric, best)
         ELSE LET value == PeriodValue(Slice(ts.values, start_idx, end_idx), metric) IN
              IF IsExc(value) THEN value
              ELSE IF RatGT(value, best.value)
              THEN BestInPeriodFrom(Tail(items), start_idx, end_idx, service, metric,
                       [tag |-> "best", item |-> items[1], value |-> value])
              ELSE BestInPeriodFrom(Tail(items), start_idx, end_idx, service, metric, best)

find_best_performer_in_period(start_idx, end_idx, service, metric) ==
    BestInPeriodFrom(get_available_menu_items, start_idx, end_idx, service, metric,
                     BestStart)

(***************************************************************************)
(* may2022.py                                                              *)
(***************************************************************************)
\* The 'Region', 'Property Type' and 'Rooms' values a file may hold, the
\* names of its month columns (columns from index 4 on) and the cell values.
\* Two region names differ only in case.
Regions22 == {"North", "north"}
Types22 == {"Flat", "House"}
Rooms22 == {2, 3}
MonthLabels == <<"Jan-19", "Feb-19">>
Vals22 == {1, 2}

RegionInputs == Regions22 \cup {"East"}
TypeInputs == Types22
\* What the user may type at "Enter number of rooms: ".
RoomTexts == {"2", "3", "two"}

Rows22 == [Region : Regions22, PropertyType : Types22, Rooms : Rooms22,
           cells : [1..Len(MonthLabels) -> Vals22]]

\* int(text) raises ValueError on text that is no integer literal.
IsIntLiteral(text) == text \in {"2", "3"}
int(text) == CASE text = "2" -> 2 [] text = "3" -> 3

\* sorted() on the room counts, and the key order of groupby('Property
\* Type'), which sorts its keys (strings compare by code point).
RECURSIVE SortedInts(_)
SortedInts(S) ==
    IF S = {} THEN <<>>
    ELSE LET m == CHOOSE x \in S : \A y \in S : x <= y
         IN  <<m>> \o SortedInts(S \ {m})

StringOrder == <<"Flat", "House">>
SortedStrings(S) == SelectSeq(StringOrder, LAMBDA x : x \in S)

\* frame.iloc[:, 4:].values flattened row by row.
RECURSIVE Flatten(_)
Flatten(rows) == IF rows = <<>> THEN <<>> ELSE rows[1].cells \o Flatten(Tail(rows))

get_available_regions == Unique(Column(df, "Region"))

get_region_data(region_name) ==
    IF ~InColumn(df, "Region", region_name) THEN None
    ELSE Frame(FilterEq(df, "Region", region_name))

\* df.groupby('Region') is a DataFrameGroupBy, which has no attribute iloc:
\* line 53 raises AttributeError before any mean is computed.
find_highest_performing_region == Raise("AttributeError")

get_property_types_in_region(region_name) ==
    LET region_data == get_region_data(region_name) IN
    IF region_data.tag = "None" THEN <<>>
    ELSE Unique(Column(region_data.rows, "PropertyType"))

\* Mutant of get_room_sizes_for_property: unique() without sorted().
get_room_sizes_for_property_unsorted(region_name, property_type) ==
    LET region_data == get_region_data(region_name) IN
    IF region_data.tag = "None" THEN <<>>
    ELSE Unique(Column(FilterEq(region_data.rows, "PropertyType", property_type),
                       "Rooms"))

get_room_sizes_for_property(region_name, property_type) ==
    LET region_data == get_region_data(region_name) IN
    IF region_data.tag = "None" THEN <<>>
    ELSE LET property_data == FilterEq(region_data.rows, "PropertyType", property_type)
         IN  SortedInts({property_data[i].Rooms : i \in DOMAIN property_data})

\* Returns the pair (month_labels, time_series), or (None, None).
get_time_series_data(region_name, property_type, rooms) ==
    LET region_data == get_region_data(region_name) IN
    IF region_data.tag = "None" THEN None
    ELSE LET filtered == SelectSeq(region_data.rows,
                 LAMBDA r : r.PropertyType = property_type /\ r.Rooms = rooms)
         IN  IF filtered = <<>> THEN None
             ELSE [tag |-> "series", labels |-> MonthLabels,
                   values |-> filtered[1].cells]

\* What display_region_summary prints.
display_region_summary(region_name) ==
    LET region_data == get_region_data(region_name) IN
    IF region_data.tag = "None"
    THEN [tag |-> "printed", msg |-> "Region not found"]
    ELSE LET month_data == Flatten(region_data.rows)
             types == Unique(Column(region_data.rows, "PropertyType"))
         IN  [tag |-> "printed", msg |-> "REGION ANALYSIS",
              records |-> Len(region_data.rows),
              average |-> np_mean(month_data),
              max |-> np_max(month_data),
              min |-> np_min(month_data),
              std_dev_sq |-> np_std_sq(month_data),
              breakdown |-> [k \in DOMAIN types |->
                  LET prop_data == FilterEq(region_data.rows, "PropertyType", types[k])
                  IN  [prop_type |-> types[k], count |-> Len(prop_data),
                       avg_increase |-> np_mean(Flatten(prop_data))]]]

\* Mutant of plot_property_trend: the series is drawn and fitted without
\* the test for a missing one.
plot_property_trend_unguarded(region_name, property_type, rooms) ==
    LET ts == get_time_series_data(region_name, property_type, rooms) IN
    [tag |-> "chart", kind |-> "line", labels |-> MonthLabels,
     values |-> IF ts.tag = "None" THEN <<>> ELSE ts.values, trend |-> TRUE]

\* What plot_property_trend prints or draws (the line and its quadratic
\* trend are drawn over the same labels).
plot_property_trend(region_name, property_type, rooms) ==
    LET ts == get_time_series_data(region_name, property_type, rooms) IN
    IF ts.tag = "None" THEN [tag |-> "printed", msg |-> "No data found"]
    ELSE [tag |-> "chart", kind |-> "line", labels |-> ts.labels,
          values |-> ts.values, trend |-> TRUE]

\* Mutant of ColumnMeans: each row's mean over its months (mean(axis=1)),
\* laid over the month columns.
ColumnMeans_rowwise(rows) ==
    [c \in DOMAIN MonthLabels |->
        IF c \in DOMAIN rows THEN np_mean(rows[c].cells) ELSE NaN]

\* group.iloc[:, 4:].mean(): the column-wise mean of the group's rows.
ColumnMeans(rows) ==
    [c \in DOMAIN MonthLabels |-> np_mean([i \in DOMAIN rows |-> rows[i].cells[c]])]

plot_region_comparison(region_name) ==
    LET region_data == get_region_data(region_name) IN
    IF region_data.tag = "None"
    THEN [tag |-> "printed", msg |-> "Region not found"]
    ELSE LET keys == SortedStrings({region_data.rows[i].PropertyType :
                                       i \in DOMAIN region_data.rows})
         IN  [tag |-> "chart", kind |-> "lines", labels |-> MonthLabels,
              series |-> [k \in DOMAIN keys |->
                  [label |-> keys[k], idx |-> k - 1,
                   avg_values |-> ColumnMeans(
                       FilterEq(region_data.rows, "PropertyType", keys[k]))]]]

(***************************************************************************)
(* may2024.py                                                              *)
(***************************************************************************)
\* The 'Day' and 'Pay Type' values a file may hold ("Mon" is a day value
\* outside week_order), the names of its income-source columns (columns
\* from index 2 on) and the cell values.
Days24 == {"Monday", "Sunday", "Mon"}
PayTypes24 == {"Cash", "Card"}
SourceLabels == <<"Tickets", "Gift Shop">>
Vals24 == {0, 1}

SourceInputs == {"Tickets", "Gift Shop", "Parking", ""}
PayTypeInputs == PayTypes24 \cup {"Cheque"}
DayInputs == Days24 \cup {"Friday"}

week_order == <<"Monday", "Tuesday", "Wednesday", "Thursday", "Friday",
                "Saturday", "Sunday">>

Rows24 == [Day : Days24, PayType : PayTypes24,
           cells : [1..Len(SourceLabels) -> Vals24]]

InSeq(x, S) == \E i \in DOMAIN S : S[i] = x

\* The position of a source column among the income columns.
SourceIndex(source) == CHOOSE c \in DOMAIN SourceLabels : SourceLabels[c] = source

\* data[source].values
SourceColumn(rows, source) == [i \in DOMAIN rows |-> rows[i].cells[SourceIndex(source)]]

\* Mutant of RowSums: only the first income source is counted.
RowSums_first_source(rows) == [i \in DOMAIN rows |-> rows[i].cells[1]]

\* data[get_available_sources()].sum(axis=1).values
RowSums(rows) == [i \in DOMAIN rows |-> SumSeq(rows[i].cells)]

get_available_sources == SourceLabels

get_available_payment_types == Unique(Column(df, "PayType"))

get_available_days ==
    SelectSeq(week_order, LAMBDA d : InSeq(d, Unique(Column(df, "Day"))))

get_payment_type_data(pay_type) ==
    IF ~InSeq(pay_type, get_available_payment_types) THEN None
    ELSE Frame(FilterEq(df, "PayType", pay_type))

get_day_data(day) ==
    IF ~InSeq(day, get_available_days) THEN None
    ELSE Frame(FilterEq(df, "Day", day))

get_source_income_data(source) ==
    IF ~InSeq(source, get_available_sources) THEN None
    ELSE [tag |-> "array", values |-> SourceColumn(df, source)]

\* Mutant of calculate_income_stats: only None is guarded, not length 0.
calculate_income_stats_unguarded(data) ==
    IF data.tag = "None" THEN None ELSE StatsDict(data.values)

\* data is None or an array.
calculate_income_stats(data) ==
    IF data.tag = "None" \/ Len(data.values) = 0 THEN None
    ELSE StatsDict(data.values)

\* The income array of one group of rows: one source column, or the row
\* sums over all sources.
IncomeOf(rows, source) ==
    [tag |-> "array",
     values |-> IF source # NoneVal THEN SourceColumn(rows, source) ELSE RowSums(rows)]

\* A dict is a sequence of [key, val] entries in insertion order.
RECURSIVE ByPaymentTypeFrom(_, _)
ByPaymentTypeFrom(payment_types, source) ==
    IF payment_types = <<>> THEN <<>>
    ELSE LET data == get_payment_type_data(payment_types[1])
             rest == ByPaymentTypeFrom(Tail(payment_types), source)
         IN  IF source # NoneVal /\ ~InSeq(source, get_available_sources)
             THEN rest
             ELSE <<[key |-> payment_types[1],
                     val |-> calculate_income_stats(IncomeOf(data.rows, source))]>>
                  \o rest

\* Mutant of calculate_by_payment_type: the payment types are scanned
\* from the second one on.
calculate_by_payment_type_skipping(source) ==
    IF get_available_payment_types = <<>> THEN <<>>
    ELSE ByPaymentTypeFrom(Tail(get_available_payment_types), source)

calculate_by_payment_type(source) ==
    ByPaymentTypeFrom(get_available_payment_types, source)

RECURSIVE ByDayOfWeekFrom(_, _, _)
ByDayOfWeekFrom(days, source, pay_type) ==
    IF days = <<>> THEN <<>>
    ELSE LET day_data == get_day_data(days[1]).rows
             data == IF pay_type # NoneVal
                     THEN FilterEq(day_data, "PayType", pay_type)
                     ELSE day_data
             rest == ByDayOfWeekFrom(Tail(days), source, pay_type)
         IN  IF source # NoneVal /\ ~InSeq(source, get_available_sources)
             THEN rest
             ELSE <<[key |-> days[1],
                     val |-> calculate_income_stats(IncomeOf(data, source))]>>
                  \o rest

calculate_by_day_of_week(source, pay_type) ==
    ByDayOfWeekFrom(get_available_days, source, pay_type)

\* max(results.items(), key=...) and min(...): the first entry whose key is
\* the largest (smallest); ValueError on an empty dict.
TotalOrZero(e) == IF e.val.tag = "stats" THEN e.val.total ELSE ToRat(0)

RECURSIVE PyMaxFrom(_, _)
PyMaxFrom(entries, best) ==
    IF entries = <<>> THEN best
    ELSE IF RatGT(TotalOrZero(entries[1]), TotalOrZero(best))
         THEN PyMaxFrom(Tail(entries), entries[1])
         ELSE PyMaxFrom(Tail(entries), best)

RECURSIVE PyMinFrom(_, _)
PyMinFrom(entries, best) ==
    IF entries = <<>> THEN best
    ELSE IF RatLT(TotalOrZero(entries[1]), TotalOrZero(best))
         THEN PyMinFrom(Tail(entries), entries[1])
         ELSE PyMinFrom(Tail(entries), best)

\* results[k], or a marker when k is not a key of the dict.
Lookup(results, k) ==
    IF \E i \in DOMAIN results : results[i].key = k
    THEN results[CHOOSE i \in DOMAIN results : results[i].key = k].val
    ELSE [tag |-> "missing"]

\* The per-key sections a display function prints: for each key in order,
\* skipped when the key is not in results or its statistics are None.
Sections(keys, results) ==
    SelectSeq([k \in DOMAIN keys |-> [key |-> keys[k], val |-> Lookup(results, keys[k])]],
              LAMBDA e : e.val.tag = "stats")

\* What display_payment_type_analysis prints.
display_payment_type_analysis(source) ==
    LET results == calculate_by_payment_type(source)
        payment_types == get_available_payment_types
        comparison ==
            IF Len(results) # 2 THEN None
            ELSE LET total_cash == results[1].val.total
                     total_card == results[2].val.total
                 IN  IF RatGT(total_cash, total_card)
                     THEN [tag |-> "comparison", more |-> "Cash", less |-> "Card",
                           diff |-> RatSub(total_cash, total_card),
                           percentage |-> RatMul(RatDiv(RatSub(total_cash, total_card),
                                                        total_card), ToRat(100))]
                     ELSE [tag |-> "comparison", more |-> "Card", less |-> "Cash",
                           diff |-> RatSub(total_card, total_cash),
                           percentage |-> RatMul(RatDiv(RatSub(total_card, total_cash),
                                                        total_cash), ToRat(100))]
    IN  [tag |-> "printed", msg |-> "PAYMENT TYPE ANALYSIS",
         sections |-> Sections(payment_types, results),
         comparison |-> comparison]

\* What display_day_of_week_analysis prints, or the exception it raises.
display_day_of_week_analysis(source, pay_type) ==
    LET results == calculate_by_day_of_week(source, pay_type)
        days == get_available_days
    IN  IF results = <<>> THEN Raise("ValueError")
        ELSE LET best_day == PyMaxFrom(Tail(results), results[1])
                 worst_day == PyMinFrom(Tail(results), results[1])
             IN  IF best_day.val.tag = "None" \/ worst_day.val.tag = "None"
                 THEN Raise("TypeError")
                 ELSE [tag |-> "printed", msg |-> "DAILY ANALYSIS",
                       sections |-> Sections(days, results),
                       best_day |-> [day |-> best_day.key, total |-> best_day.val.total],
                       worst_day |-> [day |-> worst_day.key, total |-> worst_day.val.total]]

\* What plot_income_trend prints or draws, or the exception it raises.
plot_income_trend(source, pay_type) ==
    LET data == IF pay_type # NoneVal THEN get_payment_type_data(pay_type) ELSE Frame(df)
    IN  IF ~InSeq(source, get_available_sources)
        THEN [tag |-> "printed", msg |-> "Income source not found"]
        ELSE IF data.tag = "None" THEN Raise("TypeError")
        ELSE LET income == SourceColumn(data.rows, source) IN
             \* np.polyfit(x_values, income, 2) raises TypeError on an empty
             \* x; on a single point the scaled Vandermonde row is
             \* [nan, nan, 1] and lstsq raises LinAlgError, after the
             \* figure and the first line were made and before plt.show().
             IF income = <<>> THEN Raise("TypeError")
             ELSE IF Len(income) = 1 THEN Raise("LinAlgError")
             ELSE [tag |-> "chart", kind |-> "line", values |-> income,
                   trend |-> TRUE, average |-> np_mean(income)]

plot_income_sources_comparison(pay_type) ==
    LET data == IF pay_type # NoneVal THEN get_payment_type_data(pay_type) ELSE Frame(df)
    IN  IF data.tag = "None" THEN Raise("TypeError")
        ELSE [tag |-> "chart", kind |-> "lines",
              series |-> [c \in DOMAIN SourceLabels |->
                  [label |-> SourceLabels[c],
                   values |-> SourceColumn(data.rows, SourceLabels[c])]]]

\* ax.bar(x, height) broadcasts x against height: ValueError when the
\* lengths differ and neither is 1.
Broadcastable(a, b) == a = b \/ a = 1 \/ b = 1

plot_day_of_week_comparison(source, pay_type) ==
    LET results == calculate_by_day_of_week(source, pay_type)
        days == get_available_days
        in_results == SelectSeq(results, LAMBDA e : InSeq(e.key, days))
    IN  IF \E i \in DOMAIN in_results : in_results[i].val.tag = "None"
        THEN Raise("TypeError")
        ELSE LET day_totals == [i \in DOMAIN in_results |-> in_results[i].val.total] IN
             IF ~Broadcastable(Len(days), Len(day_totals)) THEN Raise("ValueError")
             ELSE [tag |-> "chart", kind |-> "bar", labels |-> days,
                   values |-> day_totals]

plot_payment_type_comparison(source) ==
    LET results == calculate_by_payment_type(source) IN
    [tag |-> "chart", kind |-> "bar",
     labels |-> [i \in DOMAIN results |-> results[i].key],
     values |-> [i \in DOMAIN results |-> results[i].val.total]]

(***************************************************************************)
(* may2023.py: presenters                                                  *)
(***************************************************************************)
\* What display_menu_item_summary prints.  A statistics dict is truthy,
\* None is falsy.
display_menu_item_summary(menu_item) ==
    LET both == compare_lunch_dinner(menu_item)
        lunch_stats == both.lunch
        dinner_stats == both.dinner
        overall_stats == calculate_menu_stats(menu_item, NoneVal)
        comparison ==
            IF lunch_stats.tag = "stats" /\ dinner_stats.tag = "stats"
            THEN LET lunch_total == lunch_stats.total
                     dinner_total == dinner_stats.total
                 IN  IF RatGT(lunch_total, dinner_total)
                     THEN [tag |-> "comparison", more |-> "Lunch", less |-> "Dinner",
                           diff |-> RatSub(lunch_total, dinner_total),
                           percentage |-> RatMul(RatDiv(RatSub(lunch_total, dinner_total),
                                                        dinner_total), ToRat(100))]
                     ELSE [tag |-> "comparison", more |-> "Dinner", less |-> "Lunch",
                           diff |-> RatSub(dinner_total, lunch_total),
                           percentage |-> RatMul(RatDiv(RatSub(dinner_total, lunch_total),
                                                        lunch_total), ToRat(100))]
            ELSE None
    IN  IF overall_stats.tag = "None"
        THEN [tag |-> "printed", msg |-> "No data found"]
        ELSE [tag |-> "printed", msg |-> "MENU ITEM ANALYSIS",
              overall |-> overall_stats,
              lunch |-> lunch_stats,
              dinner |-> dinner_stats,
              comparison |-> comparison]

plot_menu_item_trend(menu_item, service) ==
    LET ts == get_sales_time_series(menu_item, service) IN
    IF ts.tag = "None" THEN [tag |-> "printed", msg |-> "No data found"]
    ELSE [tag |-> "chart", kind |-> "line", labels |-> ts.labels,
          values |-> ts.values, trend |-> TRUE]

plot_lunch_dinner_comparison(menu_item) ==
    LET lunch == get_sales_time_series(menu_item, "Lunch")
        dinner == get_sales_time_series(menu_item, "Dinner")
    IN  IF lunch.tag = "None" \/ dinner.tag = "None"
        THEN [tag |-> "printed", msg |-> "Data not available"]
        ELSE [tag |-> "chart", kind |-> "lines", labels |-> lunch.labels,
              series |-> <<[label |-> "Lunch", values |-> lunch.values],
                           [label |-> "Dinner", values |-> dinner.values]>>]

\* menu_items[0] raises IndexError on a table without rows.
plot_menu_items_comparison(service) ==
    LET menu_items == get_available_menu_items IN
    IF menu_items = <<>> THEN Raise("IndexError")
    ELSE LET all == [k \in DOMAIN menu_items |->
                        [label |-> menu_items[k], idx |-> k - 1,
                         sales |-> get_sales_time_series(menu_items[k], service)]]
         IN  [tag |-> "chart", kind |-> "lines", labels |-> DateLabels,
              series |-> SelectSeq(all, LAMBDA e : e.sales.tag # "None")]

(***************************************************************************)
(* The process: the module-level load, then requests against df.           *)
(*   pc = "ready"       df is loaded; blocked at the menu prompt (or, for  *)
(*                      an importing caller, between two calls)            *)
(*   pc = "done"        the request returned; out holds what it printed,   *)
(*                      drew or returned                                   *)
(*   pc = "crashed"     an exception left main_menu: traceback, exit       *)
(*   pc = "exited"      the exit option ended the loop                     *)
(*   pc = "load_failed" FileNotFoundError at load: message, exit()         *)
(***************************************************************************)
Scripts == {"may2022", "may2023", "may2024"}

RowsOf(s) ==
    CASE s = "may2022" -> Rows22
      [] s = "may2023" -> Rows23
      [] s = "may2024" -> Rows24

\* Every table of at most MaxRows rows a file of the script's layout holds.
TablesOf(s) == UNION {[1..n -> RowsOf(s)] : n \in 0..MaxRows}

Idle == [via |-> "none", op |-> "", args |-> <<>>, res |-> None]

\* No query was asked yet.
NotAsked == <<>>

Loaded(S) ==
    /\ script \in S
    /\ df \in TablesOf(script)
    /\ pc = "ready"
    /\ out = Idle
    /\ asked = NotAsked

\* Mutant of LoadFailed: the message is printed and the script goes on to
\* its menu without a table.
LoadFailed_goes_on(S) ==
    /\ script \in S
    /\ df = <<>>
    /\ pc = "ready"
    /\ out = [via |-> "load", op |-> "read_csv", args |-> <<>>,
              res |-> [tag |-> "printed", msg |-> "Error: Task4a_data.csv not found!"]]
    /\ asked = NotAsked

LoadFailed(S) ==
    /\ script \in S
    /\ df = <<>>
    /\ pc = "load_failed"
    /\ out = [via |-> "load", op |-> "read_csv", args |-> <<>>,
              res |-> [tag |-> "printed", msg |-> "Error: Task4a_data.csv not found!"]]
    /\ asked = NotAsked

\* Mutant of Handle: the option consumes the first row of the table.
Handle_dropping(choice, args, res) ==
    /\ out' = [via |-> "menu", op |-> choice, args |-> args, res |-> res]
    /\ pc' = IF IsExc(res) THEN "crashed" ELSE "done"
    /\ df' = IF df = <<>> THEN df ELSE Tail(df)
    /\ UNCHANGED <<script, asked>>

\* Mutant of Handle: the option leaves the table in the reverse row order
\* (a sort done in place on the module-level df).
Handle_reordering(choice, args, res) ==
    /\ out' = [via |-> "menu", op |-> choice, args |-> args, res |-> res]
    /\ pc' = IF IsExc(res) THEN "crashed" ELSE "done"
    /\ df' = [i \in DOMAIN df |-> df[Len(df) + 1 - i]]
    /\ UNCHANGED <<script, asked>>

\* A menu option ran to its end, or raised: nothing in main_menu catches.
Handle(choice, args, res) ==
    /\ out' = [via |-> "menu", op |-> choice, args |-> args, res |-> res]
    /\ pc' = IF IsExc(res) THEN "crashed" ELSE "done"
    /\ UNCHANGED <<script, df, asked>>

\* A function called by an importing caller returned res or raised it.
Return(fn, args, res) ==
    /\ out' = [via |-> "call", op |-> fn, args |-> args, res |-> res]
    /\ pc' = "done"
    /\ UNCHANGED <<script, df, asked>>

AtPrompt(s) == script = s /\ pc = "ready"

\* The loop of main_menu comes round (the menu is printed and the prompt
\* waits again), or the caller goes on to its next call.
Continue ==
    /\ pc = "done"
    /\ pc' = "ready"
    /\ out' = Idle
    /\ UNCHANGED <<script, df, asked>>

Nothing == [tag |-> "nothing"]

(***************************************************************************)
(* may2022.py: main_menu                                                   *)
(***************************************************************************)
Menu22_1 ==
    /\ AtPrompt("may2022")
    /\ \E region \in RegionInputs :
          Handle("1", [region |-> region], display_region_summary(region))

Menu22_2 ==
    /\ AtPrompt("may2022")
    /\ \E region \in RegionInputs, prop_type \in TypeInputs, room_text \in RoomTexts :
          IF Len(get_property_types_in_region(region)) > 0
          THEN IF Len(get_room_sizes_for_property(region, prop_type)) > 0
               THEN Handle("2", [region |-> region, prop_type |-> prop_type,
                                 room_text |-> room_text],
                           IF IsIntLiteral(room_text)
                           THEN plot_property_trend(region, prop_type, int(room_text))
                           ELSE Raise("ValueError"))
               ELSE Handle("2", [region |-> region, prop_type |-> prop_type], Nothing)
          ELSE Handle("2", [region |-> region], Nothing)

Menu22_3 ==
    /\ AtPrompt("may2022")
    /\ \E region \in RegionInputs :
          Handle("3", [region |-> region], plot_region_comparison(region))

Menu22_4 ==
    /\ AtPrompt("may2022")
    /\ LET best == find_highest_performing_region IN
       Handle("4", <<>>,
              IF IsExc(best) THEN best
              ELSE [tag |-> "printed", msg |-> "Highest Performing Region",
                    region |-> best.item, value |-> best.value])

Menu22_5 ==
    /\ AtPrompt("may2022")
    /\ out' = [via |-> "menu", op |-> "5", args |-> <<>>,
               res |-> [tag |-> "printed", msg |-> "Thank you"]]
    /\ pc' = "exited"
    /\ UNCHANGED <<script, df, asked>>

Menu22_Invalid ==
    /\ AtPrompt("may2022")
    /\ \E choice \in {"", "6"} :
          Handle(choice, <<>>, [tag |-> "printed", msg |-> "Invalid choice"])

(***************************************************************************)
(* may2023.py: main_menu                                                   *)
(***************************************************************************)
\* What the user may type at "Enter service".
ServiceTexts == ServiceInputs \cup {""}

\* service = service if service else None
OrNone(text) == IF text = "" THEN NoneVal ELSE text

\* metric = metric if metric in ['total', 'average'] else 'total'
MetricOf(text) == IF text \in {"total", "average"} THEN text ELSE "total"

BestSelling(best, metric) ==
    [tag |-> "printed", msg |-> "Best-selling menu item",
     item |-> best.item, value |-> best.value, metric |-> metric]

Menu23_1 ==
    /\ AtPrompt("may2023")
    /\ \E item \in ItemInputs :
          Handle("1", [item |-> item], display_menu_item_summary(item))

Menu23_2 ==
    /\ AtPrompt("may2023")
    /\ \E item \in ItemInputs, service \in ServiceTexts :
          Handle("2", [item |-> item, service |-> service],
                 plot_menu_item_trend(item, OrNone(service)))

Menu23_3 ==
    /\ AtPrompt("may2023")
    /\ \E item \in ItemInputs :
          Handle("3", [item |-> item], plot_lunch_dinner_comparison(item))

Menu23_4 ==
    /\ AtPrompt("may2023")
    /\ \E service \in ServiceTexts :
          Handle("4", [service |-> service], plot_menu_items_comparison(OrNone(service)))

Menu23_5 ==
    /\ AtPrompt("may2023")
    /\ \E metric \in MetricTexts :
          Handle("5", [metric |-> metric],
                 BestSelling(find_highest_performing_item(NoneVal, MetricOf(metric)),
                             MetricOf(metric)))

Menu23_6 ==
    /\ AtPrompt("may2023")
    /\ \E service \in ServiceTexts, metric \in MetricTexts :
          Handle("6", [service |-> service, metric |-> metric],
                 BestSelling(find_highest_performing_item(service, MetricOf(metric)),
                             MetricOf(metric)))

Menu23_7 ==
    /\ AtPrompt("may2023")
    /\ out' = [via |-> "menu", op |-> "7", args |-> <<>>,
               res |-> [tag |-> "printed", msg |-> "Thank you"]]
    /\ pc' = "exited"
    /\ UNCHANGED <<script, df, asked>>

Menu23_Invalid ==
    /\ AtPrompt("may2023")
    /\ \E choice \in {"", "8"} :
          Handle(choice, <<>>, [tag |-> "printed", msg |-> "Invalid choice"])

(***************************************************************************)
(* may2024.py: main_menu                                                   *)
(***************************************************************************)
\* What the user may type at "Enter payment type (optional)".
PayTypeTexts == PayTypeInputs \cup {""}

Menu24_1 ==
    /\ AtPrompt("may2024")
    /\ Handle("1", <<>>, display_payment_type_analysis(NoneVal))

Menu24_2 ==
    /\ AtPrompt("may2024")
    /\ \E source \in SourceInputs :
          Handle("2", [source |-> source], display_payment_type_analysis(source))

Menu24_3 ==
    /\ AtPrompt("may2024")
    /\ Handle("3", <<>>, display_day_of_week_analysis(NoneVal, NoneVal))

Menu24_4 ==
    /\ AtPrompt("may2024")
    /\ \E source \in SourceInputs, pay_type \in PayTypeTexts :
          Handle("4", [source |-> source, pay_type |-> pay_type],
                 display_day_of_week_analysis(source, OrNone(pay_type)))

Menu24_5 ==
    /\ AtPrompt("may2024")
    /\ \E source \in SourceInputs, pay_type \in PayTypeTexts :
          Handle("5", [source |-> source, pay_type |-> pay_type],
                 plot_income_trend(source, OrNone(pay_type)))

Menu24_6 ==
    /\ AtPrompt("may2024")
    /\ \E pay_type \in PayTypeTexts :
          Handle("6", [pay_type |-> pay_type],
                 plot_income_sources_comparison(OrNone(pay_type)))

Menu24_7 ==
    /\ AtPrompt("may2024")
    /\ \E source \in SourceInputs, pay_type \in PayTypeTexts :
          Handle("7", [source |-> source, pay_type |-> pay_type],
                 plot_day_of_week_comparison(source, OrNone(pay_type)))

Menu24_8 ==
    /\ AtPrompt("may2024")
    /\ \E source \in SourceInputs :
          Handle("8", [source |-> source], plot_payment_type_comparison(OrNone(source)))

Menu24_9 ==
    /\ AtPrompt("may2024")
    /\ out' = [via |-> "menu", op |-> "9", args |-> <<>>,
               res |-> [tag |-> "printed", msg |-> "Thank you"]]
    /\ pc' = "exited"
    /\ UNCHANGED <<script, df, asked>>

Menu24_Invalid ==
    /\ AtPrompt("may2024")
    /\ \E choice \in {"", "0"} :
          Handle(choice, <<>>, [tag |-> "printed", msg |-> "Invalid choice"])

(***************************************************************************)
(* The three programs as run: load, then main_menu.                        *)
(***************************************************************************)
Init == Loaded(Scripts) \/ LoadFailed(Scripts)

Next ==
    \/ Menu22_1 \/ Menu22_2 \/ Menu22_3 \/ Menu22_4 \/ Menu22_5 \/ Menu22_Invalid
    \/ Menu23_1 \/ Menu23_2 \/ Menu23_3 \/ Menu23_4 \/ Menu23_5 \/ Menu23_6
    \/ Menu23_7 \/ Menu23_Invalid
    \/ Menu24_1 \/ Menu24_2 \/ Menu24_3 \/ Menu24_4 \/ Menu24_5 \/ Menu24_6
    \/ Menu24_7 \/ Menu24_8 \/ Menu24_9 \/ Menu24_Invalid
    \/ Continue

Spec == Init /\ [][Next]_vars

(***************************************************************************)
(* The functions as an importing caller (a test, a notebook) calls them.   *)
(***************************************************************************)
Imported(s) == script = s /\ pc = "ready"

\* -- selectors
Call_get_region_data ==
    /\ Imported("may2022")
    /\ \E region_name \in RegionInputs :
          Return("get_region_data", [region_name |-> region_name],
                 get_region_data(region_name))

Call_get_menu_item_data ==
    /\ Imported("may2023")
    /\ \E menu_item \in ItemInputs, service \in ServiceInputs \cup {NoneVal} :
          Return("get_menu_item_data", [menu_item |-> menu_item, service |-> service],
                 get_menu_item_data(menu_item, service))

Call_get_payment_type_data ==
    /\ Imported("may2024")
    /\ \E pay_type \in PayTypeInputs :
          Return("get_payment_type_data", [pay_type |-> pay_type],
                 get_payment_type_data(pay_type))

Call_get_day_data ==
    /\ Imported("may2024")
    /\ \E day \in DayInputs :
          Return("get_day_data", [day |-> day], get_day_data(day))

\* -- series extraction
Call_get_time_series_data ==
    /\ Imported("may2022")
    /\ \E region_name \in RegionInputs, property_type \in TypeInputs,
          rooms \in Rooms22 \cup {4} :
          Return("get_time_series_data",
                 [region_name |-> region_name, property_type |-> property_type,
                  rooms |-> rooms],
                 get_time_series_data(region_name, property_type, rooms))

Call_get_sales_time_series ==
    /\ Imported("may2023")
    /\ \E menu_item \in ItemInputs, service \in ServiceInputs \cup {NoneVal} :
          Return("get_sales_time_series", [menu_item |-> menu_item, service |-> service],
                 get_sales_time_series(menu_item, service))

Call_get_room_sizes_for_property ==
    /\ Imported("may2022")
    /\ \E region_name \in RegionInputs, property_type \in TypeInputs \cup {"Villa"} :
          Return("get_room_sizes_for_property",
                 [region_name |-> region_name, property_type |-> property_type],
                 [tag |-> "list",
                  items |-> get_room_sizes_for_property(region_name, property_type)])

NextSelect ==
    \/ Call_get_region_data
    \/ Call_get_room_sizes_for_property
    \/ Call_get_menu_item_data
    \/ Call_get_time_series_data
    \/ Call_get_sales_time_series
    \/ Call_get_payment_type_data
    \/ Call_get_day_data
    \/ Continue

SpecSelect == Init /\ [][NextSelect]_vars

\* -- the 'find highest performing X' functions
PeriodIndexes == 0..Len(DateLabels)

Call_find_highest_performing_region ==
    /\ Imported("may2022")
    /\ Return("find_highest_performing_region", <<>>, find_highest_performing_region)

Call_find_highest_performing_item ==
    /\ Imported("may2023")
    /\ \E service \in ServiceInputs \cup {NoneVal}, metric \in MetricInputs :
          Return("find_highest_performing_item", [service |-> service, metric |-> metric],
                 find_highest_performing_item(service, metric))

Call_find_best_performer_in_period ==
    /\ Imported("may2023")
    /\ \E start_idx \in PeriodIndexes, end_idx \in PeriodIndexes,
          service \in ServiceInputs \cup {NoneVal}, metric \in MetricInputs :
          Return("find_best_performer_in_period",
                 [start_idx |-> start_idx, end_idx |-> end_idx,
                  service |-> service, metric |-> metric],
                 find_best_performer_in_period(start_idx, end_idx, service, metric))

InitBest == Loaded({"may2022", "may2023"})

NextBest ==
    \/ Call_find_highest_performing_region
    \/ Call_find_highest_performing_item
    \/ Call_find_best_performer_in_period
    \/ Continue

SpecBest == InitBest /\ [][NextBest]_vars

\* -- the reductions
\* calculate_income_stats is a function of the array alone, whatever the
\* table: the arrays over the values 10, 20, 30 of up to three elements,
\* among them the sequence [10, 20, 30].
ExampleArrays ==
    {[tag |-> "array", values |-> S] :
        S \in UNION {[1..n -> {10, 20, 30}] : n \in 1..3}}

\* The arrays (or None) the script passes to calculate_income_stats: a
\* source column of the table, and the income of each day / payment-type
\* group of rows.
IncomeArrays ==
    ExampleArrays
    \cup {get_source_income_data(source) : source \in SourceInputs}
    \cup {IncomeOf(FilterEq(FilterEq(df, "Day", day), "PayType", pay_type), source) :
             day \in Days24, pay_type \in PayTypes24,
             source \in {SourceLabels[c] : c \in DOMAIN SourceLabels} \cup {NoneVal}}
    \cup {IncomeOf(FilterEq(df, "PayType", pay_type), NoneVal) : pay_type \in PayTypes24}

Call_calculate_menu_stats ==
    /\ Imported("may2023")
    /\ \E menu_item \in ItemInputs, service \in ServiceInputs \cup {NoneVal} :
          Return("calculate_menu_stats", [menu_item |-> menu_item, service |-> service],
                 calculate_menu_stats(menu_item, service))

Call_calculate_income_stats ==
    /\ Imported("may2024")
    /\ \E data \in IncomeArrays :
          Return("calculate_income_stats", [data |-> data], calculate_income_stats(data))

Call_calculate_by_payment_type ==
    /\ Imported("may2024")
    /\ \E source \in {"Tickets", "Parking", NoneVal} :
          Return("calculate_by_payment_type", [source |-> source],
                 [tag |-> "dict", entries |-> calculate_by_payment_type(source)])

Call_calculate_by_day_of_week ==
    /\ Imported("may2024")
    /\ \E source \in {"Tickets", "Parking", NoneVal},
          pay_type \in PayTypeInputs \cup {NoneVal} :
          Return("calculate_by_day_of_week", [source |-> source, pay_type |-> pay_type],
                 [tag |-> "dict", entries |-> calculate_by_day_of_week(source, pay_type)])

\* -- a session: menu requests, and between them the queries asked again
\* Every answer a script's queries (selectors, statistics, best-of, series
\* extraction) give, by query and arguments.
Answers ==
    CASE script = "may2022" ->
           <<[r \in RegionInputs |-> get_region_data(r)],
             [k \in RegionInputs \X TypeInputs \X Rooms22 |->
                 get_time_series_data(k[1], k[2], k[3])],
             get_available_regions>>
      [] script = "may2023" ->
           <<[k \in ItemInputs \X (ServiceInputs \cup {NoneVal}) |->
                 <<get_menu_item_data(k[1], k[2]), get_sales_time_series(k[1], k[2]),
                   calculate_menu_stats(k[1], k[2])>>],
             [k \in (ServiceInputs \cup {NoneVal}) \X MetricInputs |->
                 find_highest_performing_item(k[1], k[2])],
             get_available_menu_items>>
      [] script = "may2024" ->
           <<[d \in DayInputs |-> get_day_data(d)],
             [t \in PayTypeInputs |-> get_payment_type_data(t)],
             [k \in {"Tickets", NoneVal} \X (PayTypeInputs \cup {NoneVal}) |->
                 calculate_by_day_of_week(k[1], k[2])],
             [c \in {"Gift Shop", NoneVal} |-> calculate_by_payment_type(c)]>>

\* The caller asks every query: at the start of a session or between two
\* requests (out.op is then ""), or right after a menu request returned,
\* while out still holds what that request printed or drew.  The answers
\* of the first time are kept in asked.
Call_queries ==
    /\ \/ pc = "ready"
       \/ pc = "done" /\ out.via = "menu"
    /\ out' = [via |-> "call", op |-> "queries",
               args |-> [after |-> out.op, again |-> asked # NotAsked],
               res |-> Answers]
    /\ pc' = "done"
    /\ asked' = IF asked = NotAsked THEN Answers ELSE asked
    /\ UNCHANGED <<script, df>>

NextSession == Next \/ Call_queries

SpecSession == Init /\ [][NextSession]_vars

InitStats == Loaded({"may2023", "may2024"})

NextStats ==
    \/ Call_calculate_menu_stats
    \/ Call_calculate_income_stats
    \/ Call_calculate_by_payment_type
    \/ Call_calculate_by_day_of_week
    \/ Continue

SpecStats == InitStats /\ [][NextStats]_vars

(***************************************************************************)
(* Properties.                                                             *)
(***************************************************************************)
ViaMenu(s) == out.via = "menu" /\ script = s
Called(fn) == out.via = "call" /\ out.op = fn
HasArg(a) == a \in DOMAIN out.args

\* The row at which a value of a column first appears.
FirstRow(col, x) ==
    CHOOSE i \in DOMAIN df : df[i][col] = x /\ \A j \in 1..(i - 1) : df[j][col] # x

ValuesOf(col) == {df[i][col] : i \in DOMAIN df}

\* The request named a region, property type, menu item, service, income
\* source or payment type that is not a value of its column, in a table that
\* has rows.  An empty line at an "optional" prompt stands for None and
\* names nothing.
InvalidSelection ==
    /\ df # <<>>
    /\ \/ /\ ViaMenu("may2022")
          /\ \/ HasArg("region") /\ out.args.region \notin ValuesOf("Region")
             \/ /\ HasArg("prop_type")
                /\ out.args.prop_type \notin ValuesOf("PropertyType")
       \/ /\ ViaMenu("may2023")
          /\ \/ HasArg("item") /\ out.args.item \notin ValuesOf("MenuItem")
             \/ /\ HasArg("service")
                /\ out.args.service \notin ValuesOf("Service")
                /\ ~(out.op \in {"2", "4"} /\ out.args.service = "")
       \/ /\ ViaMenu("may2024")
          /\ \/ /\ HasArg("source")
                /\ ~InSeq(out.args.source, SourceLabels)
                /\ ~(out.op = "8" /\ out.args.source = "")
             \/ /\ HasArg("pay_type")
                /\ out.args.pay_type # ""
                /\ out.args.pay_type \notin ValuesOf("PayType")

\* C1: when a menu request names a category value that is not among its
\* column's distinct values, the request ends back at the menu prompt: no
\* exception escapes main_menu and the process does not terminate.
C1_InvalidSelectionRecovers == InvalidSelection => pc = "done"

\* The request names keys that are each a value of their column, and no row
\* matches them together: a menu item and a service (may2023), or a payment
\* type that some day of the table has no row for (may2024).
EmptySelection ==
    \/ /\ ViaMenu("may2023")
       /\ HasArg("item")
       /\ out.args.item \in ValuesOf("MenuItem")
       /\ \E service \in ValuesOf("Service") :
             /\ \/ out.op \in {"1", "3"} /\ service \in {"Lunch", "Dinner"}
                \/ out.op = "2" /\ service = out.args.service
             /\ ~\E i \in DOMAIN df :
                   df[i].MenuItem = out.args.item /\ df[i].Service = service
    \/ /\ ViaMenu("may2024")
       /\ out.op \in {"4", "7"}
       /\ InSeq(out.args.source, SourceLabels)
       /\ out.args.pay_type \in ValuesOf("PayType")
       /\ \E k \in DOMAIN get_available_days :
             ~\E i \in DOMAIN df :
                 df[i].Day = get_available_days[k] /\ df[i].PayType = out.args.pay_type

\* C2: a combination of individually valid keys that matches no row gives
\* absent statistics which every downstream operation survives: no
\* exception is raised and the request ends back at the menu prompt.
C2_EmptySelectionRecovers == EmptySelection => pc = "done"

ExitChoice ==
    CASE script = "may2022" -> "5"
      [] script = "may2023" -> "7"
      [] script = "may2024" -> "9"

\* C3: main_menu's loop ends only when the exit option is entered; after
\* any other input the menu is displayed again.
C3_LoopEndsOnlyOnExit ==
    /\ pc \in {"exited", "crashed"} => pc = "exited" /\ out.op = ExitChoice
    /\ (out.via = "menu" /\ out.op # ExitChoice) => pc = "done"

\* The metric of a region: the mean of every month value of its rows.
RegionMetric(region) == np_mean(Flatten(FilterEq(df, "Region", region)))

\* The candidates of a may2023 scan and their metric values.
ItemCandidates(service) ==
    {j \in ValuesOf("MenuItem") : calculate_menu_stats(j, service).tag = "stats"}

ItemMetric(j, a) ==
    IF "start_idx" \in DOMAIN a
    THEN PeriodValue(Slice(get_sales_time_series(j, a.service).values,
                           a.start_idx, a.end_idx), a.metric)
    ELSE calculate_menu_stats(j, a.service)[a.metric]

\* C4: in each of the three 'find highest performing X' functions, of the
\* candidates that tie on the returned metric value the one that appears
\* first in the table is the one returned.
C4_TieBreakFirstSeen ==
    /\ (Called("find_highest_performing_region") /\ df # <<>>) =>
          /\ ~IsExc(out.res)
          /\ \A r \in ValuesOf("Region") :
                RegionMetric(r) = out.res.value =>
                    FirstRow("Region", out.res.item) <= FirstRow("Region", r)
    /\ (/\ \/ Called("find_highest_performing_item")
           \/ Called("find_best_performer_in_period")
        /\ ~IsExc(out.res)
        /\ out.res.item # NoneVal) =>
          \A j \in ItemCandidates(out.args.service) :
              ItemMetric(j, out.args) = out.res.value =>
                  FirstRow("MenuItem", out.res.item) <= FirstRow("MenuItem", j)

\* C5: for a non-empty list of candidates, find_highest_performing_item and
\* find_best_performer_in_period (over a non-empty period) return the
\* maximum metric value and a candidate that has it.
C5_BestIsMaximum ==
    (/\ \/ Called("find_highest_performing_item")
        \/ /\ Called("find_best_performer_in_period")
           /\ out.args.start_idx <= out.args.end_idx
           /\ out.args.end_idx < Len(DateLabels)
     /\ ItemCandidates(out.args.service) # {}) =>
        /\ ~IsExc(out.res)
        /\ out.res.item \in ItemCandidates(out.args.service)
        /\ ItemMetric(out.res.item, out.args) = out.res.value
        /\ \A j \in ItemCandidates(out.args.service) :
              RatLE(ItemMetric(j, out.args), out.res.value)

\* C6: menu option 4 of may2022 prints the region whose mean over all month
\* values of its rows is highest, with that mean, and returns to the menu.
C6_HighestRegionPrinted ==
    (ViaMenu("may2022") /\ out.op = "4" /\ df # <<>>) =>
        /\ pc = "done"
        /\ out.res.tag = "printed"
        /\ out.res.region \in ValuesOf("Region")
        /\ out.res.value = RegionMetric(out.res.region)
        /\ \A r \in ValuesOf("Region") : RatLE(RegionMetric(r), out.res.value)

\* C7: calculate_menu_stats(menu_item) without a service covers both
\* services: its total is the Lunch total plus the Dinner total, and its
\* max / min are those over every row of the item.
C7_OverallCoversBothServices ==
    (/\ Called("calculate_menu_stats")
     /\ out.args.service = NoneVal
     /\ calculate_menu_stats(out.args.menu_item, "Lunch").tag = "stats"
     /\ calculate_menu_stats(out.args.menu_item, "Dinner").tag = "stats") =>
        LET lunch == calculate_menu_stats(out.args.menu_item, "Lunch")
            dinner == calculate_menu_stats(out.args.menu_item, "Dinner")
            cells == Flatten(FilterEq(df, "MenuItem", out.args.menu_item))
        IN  /\ out.res.tag = "stats"
            /\ out.res.total = RatAdd(lunch.total, dinner.total)
            /\ out.res.max = np_max(cells)
            /\ out.res.min = np_min(cells)

\* The array a reduction was applied to.
ReducedArray ==
    IF out.op = "calculate_income_stats" THEN out.args.data.values
    ELSE get_sales_time_series(out.args.menu_item, out.args.service).values

\* C8: on a non-empty sequence S, calculate_income_stats and
\* calculate_menu_stats return max >= average >= min and
\* average = total / count, with total the sum of S and count its length
\* (so count * min <= total <= count * max).
C8_ReduceOrdered ==
    ((Called("calculate_income_stats") \/ Called("calculate_menu_stats"))
     /\ out.res.tag = "stats") =>
        LET st == out.res
            S == ReducedArray
        IN  /\ S # <<>>
            /\ RatGE(st.max, st.average)
            /\ RatGE(st.average, st.min)
            /\ st.average.n * st.count * st.total.d = st.total.n * st.average.d
            /\ st.total = ToRat(SumSeq(S))
            /\ st.count = Len(S)
            /\ RatLE(RatMul(ToRat(st.count), st.min), st.total)
            /\ RatLE(st.total, RatMul(ToRat(st.count), st.max))

\* A reduction of at least two values that are not all equal.
C8_Witness ==
    /\ Called("calculate_income_stats")
    /\ out.res.tag = "stats"
    /\ out.res.count >= 2
    /\ RatGT(out.res.max, out.res.average)
    /\ RatGT(out.res.average, out.res.min)

\* C9: calculate_income_stats(data) returns None whenever data is None or
\* has length 0 (no mean, hence no division, is computed).
C9_EmptyReduceAbsent ==
    (/\ Called("calculate_income_stats")
     /\ \/ out.args.data.tag = "None"
        \/ Len(out.args.data.values) = 0) =>
        out.res = None

\* The income of a day / payment-type group without rows, in a table that
\* has rows, was reduced.
C9_Witness ==
    /\ Called("calculate_income_stats")
    /\ df # <<>>
    /\ out.args.data.tag = "array"
    /\ out.args.data.values = <<>>
    /\ out.res = None

\* C10: a selector given a key that is not among its column's distinct
\* values returns an absent result (None) and raises nothing:
\* get_region_data, get_menu_item_data (unknown item, or unknown service),
\* get_payment_type_data and get_day_data, on every table.
C10_UnknownKeyAbsent ==
    /\ (Called("get_region_data")
        /\ out.args.region_name \notin ValuesOf("Region")) => out.res = None
    /\ (Called("get_menu_item_data")
        /\ \/ out.args.menu_item \notin ValuesOf("MenuItem")
           \/ /\ out.args.service # NoneVal
              /\ out.args.service \notin ValuesOf("Service")) => out.res = None
    /\ (Called("get_payment_type_data")
        /\ out.args.pay_type \notin ValuesOf("PayType")) => out.res = None
    /\ (Called("get_day_data")
        /\ out.args.day \notin ValuesOf("Day")) => out.res = None

\* A known menu item was asked for with a service no row of the table has.
C10_Witness ==
    /\ Called("get_menu_item_data")
    /\ out.args.menu_item \in ValuesOf("MenuItem")
    /\ out.args.service # NoneVal
    /\ out.args.service \notin ValuesOf("Service")
    /\ out.res = None

\* The k-th smallest row index of a set of row indices, and the statement
\* that rows is the table restricted to those indices, in table order.
KthIndex(idx, k) == CHOOSE i \in idx : Cardinality({j \in idx : j <= i}) = k

IsExactly(rows, idx) ==
    /\ Len(rows) = Cardinality(idx)
    /\ \A k \in 1..Len(rows) : rows[k] = df[KthIndex(idx, k)]

\* The rows that match every key of a get_time_series_data request.
SeriesRows22 ==
    {i \in DOMAIN df : /\ df[i].Region = out.args.region_name
                       /\ df[i].PropertyType = out.args.property_type
                       /\ df[i].Rooms = out.args.rooms}

\* The rows that match every key of a may2023 item / service request.
SeriesRows23 ==
    {i \in DOMAIN df : /\ df[i].MenuItem = out.args.menu_item
                       /\ \/ out.args.service = NoneVal
                          \/ df[i].Service = out.args.service}

\* C11: for keys that all occur in the table, a selector returns exactly
\* the rows in which every key matches exactly (strings case-sensitively,
\* Rooms numerically), in table order, none missing, added, reordered or
\* duplicated: get_region_data, get_menu_item_data with and without a
\* service, and the region / type / rooms filter of get_time_series_data,
\* whose first row is the one the series is read from.
C11_SelectorExact ==
    /\ (Called("get_region_data")
        /\ out.args.region_name \in ValuesOf("Region")) =>
          /\ out.res.tag = "frame"
          /\ IsExactly(out.res.rows,
                       {i \in DOMAIN df : df[i].Region = out.args.region_name})
    /\ (Called("get_menu_item_data")
        /\ out.args.menu_item \in ValuesOf("MenuItem")
        /\ out.args.service \in ValuesOf("Service") \cup {NoneVal}) =>
          /\ out.res.tag = "frame"
          /\ IsExactly(out.res.rows, SeriesRows23)
    /\ (Called("get_time_series_data")
        /\ out.args.region_name \in ValuesOf("Region")
        /\ out.args.property_type \in ValuesOf("PropertyType")
        /\ out.args.rooms \in ValuesOf("Rooms")) =>
          IF SeriesRows22 = {} THEN out.res = None
          ELSE /\ out.res.tag = "series"
               /\ out.res.values = df[KthIndex(SeriesRows22, 1)].cells

\* Of two rows whose regions differ only in case, the second was selected.
C11_Witness ==
    /\ Called("get_region_data")
    /\ Len(df) = 2
    /\ df[1].Region = "north"
    /\ df[2].Region = "North"
    /\ out.args.region_name = "North"
    /\ out.res.tag = "frame"
    /\ out.res.rows = <<df[2]>>

\* C12: the loaded table is immutable: no step of any script (a menu
\* choice with its follow-up inputs, or the loop coming round) changes df.
C12_TableImmutable == [][df' = df]_vars

\* A chart was drawn from a table that has rows.
C12_Witness ==
    /\ ViaMenu("may2024")
    /\ out.op = "5"
    /\ pc = "done"
    /\ out.res.tag = "chart"
    /\ Len(df) = MaxRows

\* C13: each menu choice is a stateless request: on the same table, every
\* query (selector, statistics, best-of, series extraction) with the same
\* arguments returns, when asked again after any menu operations with any
\* inputs, what it returned the first time it was asked.
C13_RequestsStateless ==
    (Called("queries") /\ out.args.again) => out.res = asked

\* The queries of may2024, asked earlier in the session, were asked again
\* right after a day-of-week analysis of a two-day table.
C13_Witness ==
    /\ Called("queries")
    /\ out.args.again
    /\ script = "may2024"
    /\ out.args.after = "3"
    /\ Len(get_available_days) = 2
    /\ df[1].Day # df[2].Day
    /\ df[1].cells # df[2].cells
    /\ asked[3][<<NoneVal, NoneVal>>][2].val.total.n = 2

\* C14: DataNotFound is fatal: a script whose file is not found prints the
\* error message and terminates; no step follows, so the menu is never
\* displayed and no selector or aggregator runs; and a script that did
\* load never reports the failure.
C14_DataNotFoundFatal ==
    /\ [](out.via = "load" <=>
            (pc = "load_failed" /\ out.res.tag = "printed" /\ df = <<>>))
    /\ [][out.via # "load" /\ out'.via # "load"]_vars

\* The load of may2024 failed.
C14_Witness ==
    /\ script = "may2024"
    /\ pc = "load_failed"
    /\ out.res = [tag |-> "printed", msg |-> "Error: Task4a_data.csv not found!"]

\* The rows of a property-type group of the region asked for, and the sum
\* of one month column over them.
Group22(prop_type) ==
    {i \in DOMAIN df : df[i].Region = out.args.region /\ df[i].PropertyType = prop_type}

ColumnSum(idx, c) ==
    SumSeq([j \in 1..Cardinality(idx) |-> df[KthIndex(idx, j)].cells[c]])

\* C15: in plot_region_comparison, every property-type group of k >= 1
\* rows of the region is plotted as one value per month column, in column
\* order, each value the arithmetic mean of that column's k values.
C15_ColumnWiseMean ==
    (ViaMenu("may2022") /\ out.op = "3" /\ out.args.region \in ValuesOf("Region")) =>
        /\ out.res.tag = "chart"
        /\ out.res.labels = MonthLabels
        /\ \A i \in DOMAIN df :
              df[i].Region = out.args.region =>
                  \E k \in DOMAIN out.res.series :
                      out.res.series[k].label = df[i].PropertyType
        /\ \A k \in DOMAIN out.res.series :
              LET avg_values == out.res.series[k].avg_values
                  group == Group22(out.res.series[k].label)
              IN  /\ Cardinality(group) >= 1
                  /\ DOMAIN avg_values = DOMAIN MonthLabels
                  /\ \A c \in DOMAIN MonthLabels :
                        /\ avg_values[c].d > 0
                        /\ avg_values[c].n * Cardinality(group)
                               = ColumnSum(group, c) * avg_values[c].d

\* A group of two rows (1, 2) and (2, 2) was plotted as [1.5, 2].
C15_Witness ==
    /\ ViaMenu("may2022")
    /\ out.op = "3"
    /\ out.res.tag = "chart"
    /\ Len(df) = 2
    /\ df[1].cells = <<1, 2>>
    /\ df[2].cells = <<2, 2>>
    /\ Len(out.res.series) = 1
    /\ out.res.series[1].avg_values = <<[n |-> 3, d |-> 2], [n |-> 2, d |-> 1]>>

\* The first (in table order) of a set of row indices.
FirstOf(idx) == CHOOSE i \in idx : \A j \in idx : i <= j

\* C16: a non-absent result of get_time_series_data or
\* get_sales_time_series has the observation-column names as labels, in
\* the table's column order; as many values as labels; and as i-th value
\* the cell of the i-th observation column in the first row, in table
\* order, that matches the keys.
C16_SeriesInColumnOrder ==
    /\ (Called("get_time_series_data") /\ out.res # None) =>
          /\ out.res.labels = MonthLabels
          /\ Len(out.res.values) = Len(out.res.labels)
          /\ SeriesRows22 # {}
          /\ \A c \in DOMAIN MonthLabels :
                out.res.values[c] = df[FirstOf(SeriesRows22)].cells[c]
    /\ (Called("get_sales_time_series") /\ out.res # None) =>
          /\ out.res.labels = DateLabels
          /\ Len(out.res.values) = Len(out.res.labels)
          /\ SeriesRows23 # {}
          /\ \A c \in DOMAIN DateLabels :
                out.res.values[c] = df[FirstOf(SeriesRows23)].cells[c]

\* An item with two rows of different sales was read without a service:
\* the series is the first row's.
C16_Witness ==
    /\ Called("get_sales_time_series")
    /\ out.args.service = NoneVal
    /\ Len(df) = 2
    /\ df[1].MenuItem = out.args.menu_item
    /\ df[2].MenuItem = out.args.menu_item
    /\ df[1].cells # df[2].cells
    /\ out.res.tag = "series"
    /\ out.res.values = df[1].cells

\* seq lists the values that column col takes in the rows idx, each once,
\* in the order of their first rows.
IsFirstAppearance(seq, idx, col) ==
    /\ {seq[k] : k \in DOMAIN seq} = {df[i][col] : i \in idx}
    /\ \A k, l \in DOMAIN seq :
          k < l => FirstOf({i \in idx : df[i][col] = seq[k]})
                       < FirstOf({i \in idx : df[i][col] = seq[l]})

RowsOfRegion(region) == {i \in DOMAIN df : df[i].Region = region}

\* C17: categorical report ordering is first-appearance order: the
\* 'available' lists give each distinct value once in the order of its
\* first row, and the per-category reports (the property-type breakdown of
\* display_region_summary, the series of plot_region_comparison, the
\* sections of display_payment_type_analysis) run in that order.
C17_FirstAppearanceOrder ==
    /\ (script = "may2022" /\ pc # "load_failed") =>
          /\ IsFirstAppearance(get_available_regions, DOMAIN df, "Region")
          /\ \A r \in ValuesOf("Region") :
                IsFirstAppearance(get_property_types_in_region(r), RowsOfRegion(r),
                                  "PropertyType")
    /\ (script = "may2023" /\ pc # "load_failed") =>
          /\ IsFirstAppearance(get_available_menu_items, DOMAIN df, "MenuItem")
          /\ IsFirstAppearance(get_available_services, DOMAIN df, "Service")
    /\ (script = "may2024" /\ pc # "load_failed") =>
          IsFirstAppearance(get_available_payment_types, DOMAIN df, "PayType")
    /\ (ViaMenu("may2022") /\ out.op = "1" /\ out.args.region \in ValuesOf("Region")) =>
          IsFirstAppearance([k \in DOMAIN out.res.breakdown |->
                                out.res.breakdown[k].prop_type],
                            RowsOfRegion(out.args.region), "PropertyType")
    /\ (ViaMenu("may2022") /\ out.op = "3" /\ out.args.region \in ValuesOf("Region")) =>
          /\ IsFirstAppearance([k \in DOMAIN out.res.series |-> out.res.series[k].label],
                               RowsOfRegion(out.args.region), "PropertyType")
          /\ \A k \in DOMAIN out.res.series : out.res.series[k].idx = k - 1
    /\ (ViaMenu("may2024") /\ out.op \in {"1", "2"} /\ pc = "done") =>
          LET keys == [k \in DOMAIN out.res.sections |-> out.res.sections[k].key]
          IN  \A k, l \in DOMAIN keys :
                  k < l => FirstOf({i \in DOMAIN df : df[i].PayType = keys[k]})
                               < FirstOf({i \in DOMAIN df : df[i].PayType = keys[l]})

\* C18: get_available_days returns every distinct value of the Day column
\* exactly once, in the order Monday .. Sunday whatever the row order, so
\* get_day_data is non-absent for every Day value present in the table.
C18_DaysComplete ==
    (Called("get_day_data") /\ out.args.day \in ValuesOf("Day")) =>
        LET days == get_available_days IN
        /\ {days[k] : k \in DOMAIN days} = ValuesOf("Day")
        /\ \A k, l \in DOMAIN days :
              k < l => \E a, b \in DOMAIN week_order :
                           a < b /\ week_order[a] = days[k] /\ week_order[b] = days[l]
        /\ out.res.tag = "frame"
        /\ out.res.rows # <<>>

RECURSIVE SumSquares(_)
SumSquares(S) == IF S = <<>> THEN 0 ELSE S[1] * S[1] + SumSquares(Tail(S))

\* C19: the reduction of [10, 20, 30] is total 60, average 20, max 30,
\* min 10, count 3, and the population standard deviation (variance 200/3,
\* so 8.164 <= std_dev < 8.165), not the sample one (variance 100, std_dev
\* 10); on every reduced sequence x,
\* std_dev^2 * count^2 = count * sum(x^2) - total^2.
C19_PopulationStd ==
    ((Called("calculate_income_stats") \/ Called("calculate_menu_stats"))
     /\ out.res.tag = "stats") =>
        LET st == out.res
            S == ReducedArray
            v == st.std_dev_sq
        IN  /\ v.d > 0
            /\ v.n * st.count * st.count
                  = v.d * (st.count * SumSquares(S) - st.total.n * st.total.n)
            /\ S = <<10, 20, 30>> =>
                  /\ st.total = ToRat(60)
                  /\ st.average = ToRat(20)
                  /\ st.max = ToRat(30)
                  /\ st.min = ToRat(10)
                  /\ st.count = 3
                  /\ v = [n |-> 200, d |-> 3]
                  /\ v # ToRat(100)
                  /\ 8164 * 8164 * v.d <= v.n * 1000000
                  /\ v.n * 1000000 < 8165 * 8165 * v.d

\* The sequence [10, 20, 30] was reduced.
C19_Witness ==
    /\ Called("calculate_income_stats")
    /\ out.args.data.tag = "array"
    /\ out.args.data.values = <<10, 20, 30>>
    /\ out.res.tag = "stats"
    /\ out.res.std_dev_sq = [n |-> 200, d |-> 3]

\* The sum of every income-source cell of the table.
GrandTotal == SumSeq([i \in DOMAIN df |-> SumSeq(df[i].cells)])

\* The totals, and the counts, of a breakdown's entries summed.
TotalOfEntries(entries) == RatSumSeq([k \in DOMAIN entries |-> entries[k].val.total])
CountOfEntries(entries) == SumSeq([k \in DOMAIN entries |-> entries[k].val.count])

AllDaysCanonical == \A i \in DOMAIN df : InSeq(df[i].Day, week_order)

\* C20: in may2024, with source None (and no payment-type filter) on a
\* table whose Day values are all weekday names of week_order, the totals
\* of calculate_by_day_of_week summed over the days, the totals of
\* calculate_by_payment_type summed over the payment types and the sum of
\* every income cell of the table are equal, and the counts of each
\* breakdown sum to the number of rows.
C20_TotalsPartition ==
    /\ (/\ Called("calculate_by_day_of_week")
        /\ out.args.source = NoneVal
        /\ out.args.pay_type = NoneVal
        /\ AllDaysCanonical) =>
           /\ \A k \in DOMAIN out.res.entries : out.res.entries[k].val.tag = "stats"
           /\ TotalOfEntries(out.res.entries) = ToRat(GrandTotal)
           /\ TotalOfEntries(out.res.entries)
                 = TotalOfEntries(calculate_by_payment_type(NoneVal))
           /\ CountOfEntries(out.res.entries) = Len(df)
    /\ (/\ Called("calculate_by_payment_type")
        /\ out.args.source = NoneVal
        /\ AllDaysCanonical) =>
           /\ \A k \in DOMAIN out.res.entries : out.res.entries[k].val.tag = "stats"
           /\ TotalOfEntries(out.res.entries) = ToRat(GrandTotal)
           /\ TotalOfEntries(out.res.entries)
                 = TotalOfEntries(calculate_by_day_of_week(NoneVal, NoneVal))
           /\ CountOfEntries(out.res.entries) = Len(df)

\* The day breakdown of a table with rows on two days, paid two ways, and
\* income from both sources.
C20_Witness ==
    /\ Called("calculate_by_day_of_week")
    /\ out.args.source = NoneVal
    /\ out.args.pay_type = NoneVal
    /\ AllDaysCanonical
    /\ Len(out.res.entries) = 2
    /\ Len(calculate_by_payment_type(NoneVal)) = 2
    /\ GrandTotal >= 3
    /\ \E i \in DOMAIN df : df[i].cells[2] > 0

\* The source a payment-type analysis request of the may2024 menu was for.
AnalysedSource == IF out.op = "1" THEN NoneVal ELSE out.args.source

\* The income of the rows paid by pay_type, summed: one source column, or
\* every source.
PaidTotal(pay_type, source) ==
    SumSeq([i \in DOMAIN df |->
               IF df[i].PayType # pay_type THEN 0
               ELSE IF source = NoneVal THEN SumSeq(df[i].cells)
               ELSE df[i].cells[SourceIndex(source)]])

ComparisonPrinted ==
    /\ script = "may2024"
    /\ out.via = "menu"
    /\ out.op \in {"1", "2"}
    /\ out.res.tag = "printed"
    /\ out.res.comparison.tag = "comparison"

\* C21: whenever display_payment_type_analysis prints its comparison line
\* for a table with exactly the payment types Cash and Card, the type said
\* to generate more has the strictly larger total and the printed
\* difference is its total minus the other's, whichever type comes first
\* in the table.
C21_ComparisonByName ==
    (ComparisonPrinted /\ ValuesOf("PayType") = {"Cash", "Card"}) =>
        LET c == out.res.comparison
            more == PaidTotal(c.more, AnalysedSource)
            less == PaidTotal(c.less, AnalysedSource)
        IN  /\ more > less
            /\ c.diff = ToRat(more - less)

NonNegativeTable == \A i \in DOMAIN df : \A c \in DOMAIN df[i].cells : df[i].cells[c] >= 0

\* A menu request printed a lunch/dinner or a payment-type comparison.
PercentagePrinted ==
    /\ out.via = "menu"
    /\ out.res.tag = "printed"
    /\ out.res.msg \in {"MENU ITEM ANALYSIS", "PAYMENT TYPE ANALYSIS"}
    /\ out.res.comparison.tag = "comparison"

\* The total the percentage was divided by: that of the side printed as
\* outsold (may2023), the second or the first entry of results (may2024).
PercentageDivisor ==
    LET c == out.res.comparison IN
    IF out.res.msg = "MENU ITEM ANALYSIS"
    THEN IF c.more = "Lunch" THEN out.res.dinner.total ELSE out.res.lunch.total
    ELSE IF c.more = "Cash" THEN out.res.sections[2].val.total
         ELSE out.res.sections[1].val.total

\* C22: whenever display_menu_item_summary or display_payment_type_analysis
\* computes a percentage difference on a table of non-negative values, the
\* total it divides by is not zero (and the percentage is a finite number).
C22_NoDivisionByZero ==
    (PercentagePrinted /\ NonNegativeTable) =>
        /\ PercentageDivisor # ToRat(0)
        /\ out.res.comparison.percentage.d # 0

\* The rows of the table matching region, property type and room count.
RowsMatching(region, prop_type, rooms) ==
    SelectSeq(df, LAMBDA r : r.Region = region /\ r.PropertyType = prop_type
                             /\ r.Rooms = rooms)

\* Option 2 of the may2022 menu went as far as calling plot_property_trend.
TrendReached ==
    /\ script = "may2022"
    /\ out.via = "menu"
    /\ out.op = "2"
    /\ "room_text" \in DOMAIN out.args
    /\ IsIntLiteral(out.args.room_text)

\* C23: in may2022 a property-trend chart is drawn only when a row matches
\* region, property type and room count.  Option 2 reaches
\* plot_property_trend only after the region gave a property type and the
\* property type gave a room size; with no matching row it prints
\* 'No data found' and draws no chart and fits no trend, for the keys of
\* the request and for every other key.
C23_TrendOnlyWithRow ==
    /\ (script = "may2022" /\ out.via = "menu" /\ out.op = "2"
        /\ out.res.tag = "chart") => TrendReached
    /\ TrendReached =>
          LET a == out.args
              rows == RowsMatching(a.region, a.prop_type, int(a.room_text))
          IN  /\ Len(get_property_types_in_region(a.region)) > 0
              /\ Len(get_room_sizes_for_property(a.region, a.prop_type)) > 0
              /\ rows = <<>> => out.res = [tag |-> "printed", msg |-> "No data found"]
              /\ rows # <<>> => /\ out.res.tag = "chart"
                                /\ out.res.values = rows[1].cells
              /\ \A region \in RegionInputs, prop_type \in TypeInputs,
                    rooms \in Rooms22 \cup {4} :
                    LET res == plot_property_trend(region, prop_type, rooms) IN
                    IF RowsMatching(region, prop_type, rooms) = <<>>
                    THEN res = [tag |-> "printed", msg |-> "No data found"]
                    ELSE res.tag = "chart"

\* A room count the property type does not have was asked for in a region
\* that has the property type.
C23_Witness ==
    /\ TrendReached
    /\ RowsMatching(out.args.region, out.args.prop_type, int(out.args.room_text)) = <<>>
    /\ get_room_sizes_for_property(out.args.region, out.args.prop_type) # <<>>
    /\ out.res = [tag |-> "printed", msg |-> "No data found"]

\* Some menu item has statistics for the service.
SomeItemHasStats(service) ==
    \E k \in DOMAIN get_available_menu_items :
        calculate_menu_stats(get_available_menu_items[k], service).tag = "stats"

\* C24: find_highest_performing_item returns the pair (None, -1) exactly
\* when no menu item has statistics for the service (an unknown service,
\* or no item with a row for it); when some item has statistics the
\* returned item is not None.
C24_SentinelOnlyWithoutStats ==
    Called("find_highest_performing_item") =>
        /\ out.res = BestStart <=> ~SomeItemHasStats(out.args.service)
        /\ SomeItemHasStats(out.args.service) => out.res.item # NoneVal

\* The values of an item's series at the 0-based indexes lo..hi, inclusive.
PeriodOf(item, service, lo, hi) ==
    LET v == get_sales_time_series(item, service).values
    IN  [j \in 1..(hi - lo + 1) |-> v[lo + j]]

\* The value the claim gives an item: sum for 'total', mean for 'average',
\* max for any other metric.
ClaimedPeriodValue(S, metric) ==
    IF metric = "total" THEN ToRat(SumSeq(S))
    ELSE IF metric = "average" THEN Rat(SumSeq(S), Len(S))
    ELSE ToRat(CHOOSE m \in {S[j] : j \in DOMAIN S} : \A j \in DOMAIN S : S[j] <= m)

ItemsWithSeries(service) ==
    {i \in ValuesOf("MenuItem") : get_sales_time_series(i, service).tag = "series"}

\* C25: find_best_performer_in_period(start_idx, end_idx, service, metric)
\* with 0 <= start_idx <= end_idx < number of date columns values each item
\* over the end_idx - start_idx + 1 values at start_idx..end_idx (sum for
\* 'total', mean for 'average', max otherwise) and returns the item with the
\* highest such value; for start_idx = end_idx the three metrics select
\* the same item.
C25_BestInPeriod ==
    (/\ Called("find_best_performer_in_period")
     /\ out.args.start_idx <= out.args.end_idx
     /\ out.args.end_idx < Len(DateLabels)) =>
        LET a == out.args
            items == ItemsWithSeries(a.service)
            val(i) == ClaimedPeriodValue(PeriodOf(i, a.service, a.start_idx, a.end_idx),
                                         a.metric)
        IN  /\ items # {} =>
                  /\ out.res.item \in items
                  /\ out.res.value = val(out.res.item)
                  /\ \A i \in items : RatLE(val(i), out.res.value)
            /\ a.start_idx = a.end_idx =>
                  \A metric \in MetricInputs :
                      find_best_performer_in_period(a.start_idx, a.end_idx,
                                                    a.service, metric).item
                          = out.res.item

\* C26: in may2024, for a source that is an income column or None,
\* calculate_by_payment_type returns one entry per distinct payment type of
\* the table, in order of first appearance, each with statistics (not
\* None) of count >= 1; for a source that is no income column it returns
\* an empty mapping and raises nothing.
C26_EntryPerPaymentType ==
    Called("calculate_by_payment_type") =>
        LET entries == out.res.entries
            keys == [k \in DOMAIN entries |-> entries[k].key]
        IN  /\ out.res.tag = "dict"
            /\ (out.args.source = NoneVal \/ InSeq(out.args.source, SourceLabels)) =>
                  /\ IsFirstAppearance(keys, DOMAIN df, "PayType")
                  /\ \A k \in DOMAIN entries :
                        /\ entries[k].val.tag = "stats"
                        /\ entries[k].val.count >= 1
                        /\ entries[k].val.count
                              = Cardinality({i \in DOMAIN df : df[i].PayType = keys[k]})
            /\ (out.args.source # NoneVal /\ ~InSeq(out.args.source, SourceLabels)) =>
                  entries = <<>>

\* The breakdown of one source over a table paid by card first, then cash.
C26_Witness ==
    /\ Called("calculate_by_payment_type")
    /\ out.args.source = "Tickets"
    /\ Len(out.res.entries) = 2
    /\ out.res.entries[1].key = "Card"
    /\ out.res.entries[2].key = "Cash"

\* C27: get_room_sizes_for_property(region, property_type) returns the
\* distinct Rooms values of the rows matching both keys, each once, in
\* ascending order; it returns an empty list, and raises nothing, when the
\* region is unknown or no row of the region has the property type.
C27_RoomSizesSorted ==
    Called("get_room_sizes_for_property") =>
        LET rooms == out.res.items
            matching == {i \in DOMAIN df : /\ df[i].Region = out.args.region_name
                                           /\ df[i].PropertyType = out.args.property_type}
        IN  /\ out.res.tag = "list"
            /\ {rooms[k] : k \in DOMAIN rooms} = {df[i].Rooms : i \in matching}
            /\ \A k, l \in DOMAIN rooms : k < l => rooms[k] < rooms[l]
            /\ (\/ out.args.region_name \notin ValuesOf("Region")
                \/ matching = {}) => rooms = <<>>

\* A property type listed with the larger room count first.
C27_Witness ==
    /\ Called("get_room_sizes_for_property")
    /\ Len(df) = 2
    /\ df[1].Rooms > df[2].Rooms
    /\ out.res.items = <<df[2].Rooms, df[1].Rooms>>

====
